---- MODULE Spec2Model ----
(***************************************************************************)
(* A model of the liferaft Node (src/index.js): the per-node role, term,   *)
(* leader and vote record, the named timers, and the handlers that run on  *)
(* an inbound packet, on a timer expiry and on the public calls.           *)
(*                                                                         *)
(* A handler runs to completion (the program is single threaded), so each  *)
(* handler is one action.  Inside a handler the model threads a context    *)
(* c = [n, tr, thrown]: the node's fields, the trace of what the handler   *)
(* emitted, wrote and scheduled so far, and whether it raised a TypeError. *)
(***************************************************************************)
EXTENDS Integers, Sequences, FiniteSets, TLC

VARIABLES node, last, cluster, net

vars == <<node, last, cluster, net>>

\* ------------------------------------------------------------- constants

LEADER == 1
CANDIDATE == 2
FOLLOWER == 3
STOPPED == 4

\* this.state after end(): null, which is falsy like 0.
NoState == 0

\* null (this.leader at startup, this.votes.for when no vote was cast).
Null == "null"

\* The highest term a promotion may reach and a packet may carry.
MaxTerm == 2

\* The largest this.nodes.length the membership provider reports.
MaxNodes == 3

\* The name of the node under study, and the senders of the packets it reads.
Self == "n1"

Senders == {"n2", "n3"}

Types == {"heartbeat", "vote", "voted", "rpc"}

\* ------------------------------------------------------------ the node

\* The fields the constructor sets.
NewNode(name, nodesLength) ==
  [ name         |-> name,
    state        |-> FOLLOWER,
    leader       |-> Null,
    term         |-> 0,
    votesFor     |-> Null,
    votesGranted |-> 0,
    timers       |-> {},
    nodesLength  |-> nodesLength,
    ended        |-> FALSE ]

Ctx(n) == [n |-> n, tr |-> <<>>, thrown |-> FALSE]

\* One entry of the trace: what happened (k), its numeric and its string
\* argument, and the vote record at that point.
Entry(k, v, s, n) ==
  [k |-> k, v |-> v, s |-> s, vf |-> n.votesFor, vg |-> n.votesGranted]

Log(c, k, v, s) == [c EXCEPT !.tr = Append(@, Entry(k, v, s, c.n))]

\* A call on this.timers when it is null (after end()): a TypeError.
Throw(c) == [c EXCEPT !.thrown = TRUE]

\* ------------------------------------------------------ timer registry

TimersActive(c, name) == name \in c.n.timers

\* Setting a name that is pending schedules nothing new; the call is
\* recorded as "set again".
TimersSetTimeout(c, name) ==
  IF name \in c.n.timers
  THEN Log(c, "set again", 0, name)
  ELSE Log([c EXCEPT !.n.timers = @ \cup {name}], "set", 0, name)

TimersAdjust(c, name) == Log(c, "adjust", 0, name)

TimersClear(c) == Log([c EXCEPT !.n.timers = {}], "clear", 0, "")

\* ------------------------------------------------------------ heartbeat

Heartbeat(c) ==
  IF c.n.ended THEN Throw(c)
  ELSE IF TimersActive(c, "heartbeat")
       THEN TimersAdjust(c, "heartbeat")
       ELSE TimersSetTimeout(c, "heartbeat")

\* ------------------------------------------------------------ listeners

\* Votes only last one term.
TermChangeListenerKeepsVote(c) ==
  [c EXCEPT !.n.votesGranted = 0]

TermChangeListener(c) ==
  [c EXCEPT !.n.votesFor = Null, !.n.votesGranted = 0]

StateChangeListener(c) == Heartbeat(TimersClear(c))

\* emit(ev, ...): the listeners registered by initialize() run synchronously;
\* after end() (removeAllListeners) none is left.  The entry's vote record
\* is the one the listeners leave behind.
Emit(c, ev, v, s) ==
  LET i  == Len(c.tr) + 1
      c1 == Log(c, ev, v, s)
      c2 == IF c.n.ended THEN c1
            ELSE IF ev = "term change" THEN TermChangeListener(c1)
            ELSE IF ev = "state change" THEN StateChangeListener(c1)
            ELSE c1
  IN  [c2 EXCEPT !.tr[i].vf = c2.n.votesFor, !.tr[i].vg = c2.n.votesGranted]

\* --------------------------------------------------------------- change

ChangeStateFirst(c, changed) ==
  LET c1 == IF "state" \in DOMAIN changed /\ changed.state # c.n.state
            THEN Emit([c EXCEPT !.n.state = changed.state],
                      "state change", changed.state, "")
            ELSE c
      c2 == IF "term" \in DOMAIN changed /\ changed.term # c1.n.term
            THEN Emit([c1 EXCEPT !.n.term = changed.term],
                      "term change", changed.term, "")
            ELSE c1
      c3 == IF "leader" \in DOMAIN changed /\ changed.leader # c2.n.leader
            THEN Emit([c2 EXCEPT !.n.leader = changed.leader],
                      "leader change", 0, changed.leader)
            ELSE c2
  IN  c3

Change(c, changed) ==
  LET c1 == IF "term" \in DOMAIN changed /\ changed.term # c.n.term
            THEN Emit([c EXCEPT !.n.term = changed.term],
                      "term change", changed.term, "")
            ELSE c
      c2 == IF "leader" \in DOMAIN changed /\ changed.leader # c1.n.leader
            THEN Emit([c1 EXCEPT !.n.leader = changed.leader],
                      "leader change", 0, changed.leader)
            ELSE c1
      c3 == IF "state" \in DOMAIN changed /\ changed.state # c2.n.state
            THEN Emit([c2 EXCEPT !.n.state = changed.state],
                      "state change", changed.state, "")
            ELSE c2
  IN  c3

\* --------------------------------------------------------------- quorum

\* Math.ceil(this.nodes.length / 2) + 1
Quorum(n) == ((n.nodesLength + 1) \div 2) + 1

\* ---------------------------------------------------------------- write

\* write('vote', {granted: g}): the stub returns false; the call is recorded.
Write(c, granted) == Log(c, "write", IF granted THEN 1 ELSE 0, "vote")

\* broadcast(type): builds a packet and hands it nowhere; the call is recorded.
Broadcast(c, type) == Log(c, "broadcast", c.n.term, type)

\* ------------------------------------------------------------- packets

\* packet(type, data) as the sender builds it; granted is payload.granted
\* of a voted packet, object is false for a value that is not an object.
Packet(state, term, name, type, granted) ==
  [ object |-> TRUE, state |-> state, term |-> term, name |-> name,
    type |-> type, granted |-> granted ]

NotAnObject ==
  [ object |-> FALSE, state |-> NoState, term |-> 0, name |-> "",
    type |-> "", granted |-> FALSE ]

Packets ==
  { Packet(s, t, m, ty, FALSE) :
      s \in {LEADER, CANDIDATE, FOLLOWER}, t \in 0..MaxTerm, m \in Senders,
      ty \in Types }
  \cup { Packet(s, t, m, "voted", TRUE) :
      s \in {LEADER, CANDIDATE, FOLLOWER}, t \in 0..MaxTerm, m \in Senders }
  \cup {NotAnObject}

\* ------------------------------------------------- the 'data' listener

\* Raft 5.1: a higher term makes the node a FOLLOWER of that term.
TermReconcileKeepsState(c, data) ==
  IF data.term > c.n.term
  THEN Change(c, [term |-> data.term])
  ELSE c

TermReconcile(c, data) ==
  IF data.term > c.n.term
  THEN Change(c, [state |-> FOLLOWER, term |-> data.term])
  ELSE c

\* Raft 5.2: a packet from a LEADER makes a CANDIDATE or LEADER step down.
LeaderRecognitionCandidateOnly(c, data) ==
  IF LEADER = data.state /\ CANDIDATE = c.n.state
  THEN Change(c, [state |-> FOLLOWER])
  ELSE c

LeaderRecognition(c, data) ==
  IF LEADER = data.state /\ FOLLOWER # c.n.state
  THEN Change(c, [state |-> FOLLOWER])
  ELSE c

VoteCaseOverwrites(c, data) ==
  LET c1 == IF data.term > c.n.term
            THEN Change(c, [term |-> data.term]) ELSE c
  IN  Write(Emit([c1 EXCEPT !.n.votesFor = data.name],
                 "vote", 1, data.name), TRUE)

VoteCase(c, data) ==
  IF data.term < c.n.term
  THEN Write(Emit(c, "vote", 0, data.name), FALSE)
  ELSE IF ~(data.term > c.n.term)
          /\ c.n.votesFor # Null /\ c.n.votesFor # data.name
  THEN Write(Emit(c, "vote", 0, data.name), FALSE)
  ELSE LET c1 == IF data.term > c.n.term
                 THEN Change(c, [term |-> data.term]) ELSE c
       IN  Write(Emit([c1 EXCEPT !.n.votesFor = data.name],
                      "vote", 1, data.name), TRUE)

VotedCaseAnyRole(c, data) ==
  LET c1 == IF data.granted /\ data.term = c.n.term
            THEN [c EXCEPT !.n.votesGranted = @ + 1] ELSE c
      c2 == IF data.term > c1.n.term
            THEN Change(c1, [term |-> data.term]) ELSE c1
  IN  IF c2.n.votesGranted >= Quorum(c2.n)
      THEN Change(c2, [leader |-> c2.n.name, state |-> LEADER])
      ELSE c2

\* A new incoming vote: only a CANDIDATE accepts it.
VotedCase(c, data) ==
  IF CANDIDATE # c.n.state THEN c
  ELSE LET c1 == IF data.granted /\ data.term = c.n.term
                 THEN [c EXCEPT !.n.votesGranted = @ + 1] ELSE c
           c2 == IF data.term > c1.n.term
                 THEN Change(c1, [term |-> data.term]) ELSE c1
       IN  IF c2.n.votesGranted >= Quorum(c2.n)
           THEN Change(c2, [leader |-> c2.n.name, state |-> LEADER])
           ELSE c2

Dispatch(c, data) ==
  CASE data.type = "heartbeat" ->
         IF LEADER = data.state THEN Heartbeat(c) ELSE c
    [] data.type = "vote"  -> VoteCase(c, data)
    [] data.type = "voted" -> VotedCase(c, data)
    [] OTHER -> c

IncomingAdoptsAnyTerm(c, data) ==
  IF ~data.object THEN c
  ELSE Dispatch(LeaderRecognition(
         IF data.term # c.n.term
         THEN Change(c, [state |-> FOLLOWER, term |-> data.term])
         ELSE c, data), data)

IncomingAnswersStale(c, data) ==
  IF ~data.object THEN c
  ELSE Dispatch(LeaderRecognition(TermReconcile(c, data), data), data)

Incoming(c, data) ==
  IF ~data.object THEN c
  ELSE IF data.term < c.n.term THEN c
  ELSE Dispatch(LeaderRecognition(TermReconcile(c, data), data), data)

\* -------------------------------------------------------------- promote

PromoteKeepsVote(c) ==
  LET c1 == Change(c, [state |-> CANDIDATE, term |-> c.n.term + 1,
                       leader |-> ""])
      c2 == [c1 EXCEPT !.n.votesGranted = 1]
  IN  IF c2.n.ended THEN Throw(c2) ELSE TimersSetTimeout(c2, "election")

Promote(c) ==
  LET c1 == Change(c, [state |-> CANDIDATE, term |-> c.n.term + 1,
                       leader |-> ""])
      c2 == [c1 EXCEPT !.n.votesFor = c1.n.name, !.n.votesGranted = 1]
  IN  IF c2.n.ended THEN Throw(c2) ELSE TimersSetTimeout(c2, "election")

\* The callback heartbeat() schedules under the name heartbeat.
HeartbeatCallback(c) ==
  IF LEADER # c.n.state
  THEN Promote(Emit(c, "heartbeat timeout", 0, ""))
  ELSE Broadcast(c, "heartbeat")

\* A one-shot timer that expires is no longer pending when its callback runs.
Expire(c, name) == [c EXCEPT !.n.timers = @ \ {name}]

\* ------------------------------------------------------------------ end

End(c) ==
  IF c.n.state = NoState THEN c
  ELSE IF c.n.ended THEN Throw(c)
  ELSE [c EXCEPT !.n.timers = {}, !.n.state = NoState, !.n.ended = TRUE]

\* ------------------------------------------- one node, any inbound packet

\* What the last handler was, what it was given, the node before it ran,
\* what it emitted, wrote and scheduled, and how it returned.
Record(kind, data, pre, c, ret) ==
  [ kind |-> kind, data |-> data, pre |-> pre, tr |-> c.tr,
    ret |-> IF c.thrown THEN "throw" ELSE ret ]

Cluster == {"a", "b", "c", "d"}

\* The nodes of the cluster whose promote() is called from outside.
Candidates == {"a", "b"}

InitNode ==
  /\ node \in { NewNode(Self, k) : k \in 1..MaxNodes }
  /\ last = Record("new", NotAnObject, node, Ctx(node), "this")

InitCluster ==
  /\ cluster = [i \in Cluster |-> NewNode(i, Cardinality(Cluster))]
  /\ net = {}

Init == InitNode /\ InitCluster

\* The cluster is studied beside one idle node.
InitNetwork ==
  /\ InitCluster
  /\ node = NewNode(Self, MaxNodes)
  /\ last = Record("new", NotAnObject, node, Ctx(node), "this")

\* read(packet): emit('data', packet); after end() this.read is null and the
\* call raises a TypeError before anything runs.
DoRead(data) ==
  /\ \E c \in {IF node.ended THEN Throw(Ctx(node))
                             ELSE Incoming(Ctx(node), data)} :
       /\ node' = c.n
       /\ last' = Record("read", data, node, c, "true")
  /\ UNCHANGED <<cluster, net>>

\* promote() called from outside.
DoPromote ==
  /\ node.term < MaxTerm
  /\ \E c \in {Promote(Ctx(node))} :
       /\ node' = c.n
       /\ last' = Record("promote", NotAnObject, node, c, "this")
  /\ UNCHANGED <<cluster, net>>

\* heartbeat() called from outside.
DoHeartbeat ==
  /\ \E c \in {Heartbeat(Ctx(node))} :
       /\ node' = c.n
       /\ last' = Record("heartbeat", NotAnObject, node, c, "this")
  /\ UNCHANGED <<cluster, net>>

\* The heartbeat timer expires.
FireHeartbeat ==
  /\ "heartbeat" \in node.timers
  /\ node.state = LEADER \/ node.term < MaxTerm
  /\ \E c \in {HeartbeatCallback(Expire(Ctx(node), "heartbeat"))} :
       /\ node' = c.n
       /\ last' = Record("heartbeat expiry", NotAnObject, node, c, "none")
  /\ UNCHANGED <<cluster, net>>

\* The election timer expires: its callback is promote.
FireElection ==
  /\ "election" \in node.timers
  /\ node.term < MaxTerm
  /\ \E c \in {Promote(Expire(Ctx(node), "election"))} :
       /\ node' = c.n
       /\ last' = Record("election expiry", NotAnObject, node, c, "none")
  /\ UNCHANGED <<cluster, net>>

\* end() called from outside.
DoEnd ==
  /\ \E c \in {End(Ctx(node))} :
       /\ node' = c.n
       /\ last' = Record("end", NotAnObject, node, c,
                         IF node.state = NoState THEN "false" ELSE "true")
  /\ UNCHANGED <<cluster, net>>

\* write(packet) called from outside: the stub returns false; after end()
\* this.write is null and the call raises a TypeError.
DoWrite ==
  /\ \E c \in {IF node.ended THEN Throw(Ctx(node)) ELSE Ctx(node)} :
       /\ node' = c.n
       /\ last' = Record("write", NotAnObject, node, c, "false")
  /\ UNCHANGED <<cluster, net>>

Next ==
  \/ \E data \in Packets : DoRead(data)
  \/ DoPromote
  \/ DoHeartbeat
  \/ FireHeartbeat
  \/ FireElection
  \/ DoEnd
  \/ DoWrite

Spec == Init /\ [][Next]_vars

\* ------------------------------------------------- a cluster and its network

\* The highest term a promotion may reach in the cluster.
MaxClusterTerm == 1

\* The transport: what a handler hands to it becomes packets in flight.
\* A vote solicitation follows every promotion, a write('vote', {granted})
\* is carried to the requester as a voted packet, a broadcast goes to every
\* other node.  Each packet is built by packet(): it carries the sender's
\* role, term and name at the time it is sent.
Solicit(c) ==
  { [to |-> "*", pkt |-> Packet(c.n.state, c.n.term, c.n.name, "vote", FALSE)] }

Replies(c, requester) ==
  { [to |-> requester,
     pkt |-> Packet(c.n.state, c.n.term, c.n.name, "voted", c.tr[i].v = 1)] :
      i \in { j \in 1..Len(c.tr) : c.tr[j].k = "write" } }

Broadcasts(c) ==
  { [to |-> "*",
     pkt |-> Packet(c.n.state, c.tr[i].v, c.n.name, c.tr[i].s, FALSE)] :
      i \in { j \in 1..Len(c.tr) : c.tr[j].k = "broadcast" } }

\* promote() on node i, called from outside.
ClusterPromote(i) ==
  /\ cluster[i].term < MaxClusterTerm
  /\ \E c \in {Promote(Ctx(cluster[i]))} :
       /\ cluster' = [cluster EXCEPT ![i] = c.n]
       /\ net' = net \cup Solicit(c)
  /\ UNCHANGED <<node, last>>

\* A pending timer of node i expires.
ClusterExpire(i, name) ==
  /\ name \in cluster[i].timers
  /\ LET promotes == name = "election" \/ cluster[i].state # LEADER
         c0 == Expire(Ctx(cluster[i]), name)
     IN  /\ promotes => cluster[i].term < MaxClusterTerm
         /\ \E c \in {IF name = "election" THEN Promote(c0)
                                           ELSE HeartbeatCallback(c0)} :
              /\ cluster' = [cluster EXCEPT ![i] = c.n]
              /\ net' = net \cup Broadcasts(c)
                            \cup (IF promotes THEN Solicit(c) ELSE {})
  /\ UNCHANGED <<node, last>>

\* The nodes a packet in flight is addressed to.
Addressees(m) == IF m.to = "*" THEN Cluster \ {m.pkt.name} ELSE {m.to}

\* Node i reads a packet in flight.  The packet stays in flight: it may be
\* read again (duplication), later than another (reordering) or never (loss).
ClusterDeliver(i, m) ==
  /\ \E c \in {Incoming(Ctx(cluster[i]), m.pkt)} :
       /\ cluster' = [cluster EXCEPT ![i] = c.n]
       /\ net' = net \cup Replies(c, m.pkt.name)
  /\ UNCHANGED <<node, last>>

NextCluster ==
  \/ \E i \in Candidates : ClusterPromote(i)
  \/ \E i \in Cluster, name \in {"heartbeat", "election"} : ClusterExpire(i, name)
  \/ \E m \in net : \E i \in Addressees(m) : ClusterDeliver(i, m)

SpecCluster == InitNetwork /\ [][NextCluster]_vars

\* ------------------------------------------------------------ properties

\* C1: no two distinct nodes of the cluster are LEADER in the same term.
OneLeaderPerTerm ==
  \A i, j \in Cluster :
    ( /\ i # j
      /\ cluster[i].state = LEADER /\ cluster[j].state = LEADER )
    => cluster[i].term # cluster[j].term

\* C2: over every sequence of inbound packets, timer expiries and promote()
\* calls, the node's term never decreases from one state to the next.
TermNeverDecreases == [][node'.term >= node.term]_vars

\* The node reached term 1 by a packet (it voted for n2 there) and then
\* term 2 by promote().
TermRoseByPacketAndPromote ==
  /\ last.kind = "promote" /\ last.pre.term = 1 /\ node.term = 2
  /\ last.pre.votesFor = "n2"

\* C3: once the node has voted for A in term T, a vote request of term T
\* from B # A is answered with granted:false, emits the vote event with
\* false, grants nothing and leaves voted-for equal to A.
SecondVoteOfTermRefused ==
  ( /\ last.kind = "read" /\ last.ret = "true" /\ last.data.object
    /\ last.data.type = "vote"
    /\ last.data.term = last.pre.term
    /\ last.pre.votesFor # Null
    /\ last.pre.votesFor # last.data.name )
  => LET writes == { i \in 1..Len(last.tr) : last.tr[i].k = "write" }
         votes  == { i \in 1..Len(last.tr) : last.tr[i].k = "vote" }
     IN  /\ node.votesFor = last.pre.votesFor
         /\ Cardinality(writes) = 1 /\ \A i \in writes : last.tr[i].v = 0
         /\ Cardinality(votes) = 1 /\ \A i \in votes : last.tr[i].v = 0

\* The node voted for n2 in its term and then read a vote request of the
\* same term from n3.
SecondVoteOfTermSeen ==
  /\ last.kind = "read" /\ last.data.type = "vote"
  /\ last.data.term = last.pre.term /\ last.pre.term = 1
  /\ last.pre.votesFor = "n2" /\ last.data.name = "n3"
  /\ last.pre.state = FOLLOWER

\* C4: every time the term takes a new value the vote record is (none, 0)
\* at that point of the transition, before any later step of it.
TermChangeResetsVotes ==
  \A i \in 1..Len(last.tr) :
    last.tr[i].k = "term change" => last.tr[i].vf = Null /\ last.tr[i].vg = 0

\* C5: a CANDIDATE has voted for itself and counts at least its own vote,
\* and a promotion leaves the node CANDIDATE one term higher with exactly
\* its own vote.
CandidateHoldsOwnVote ==
  /\ node.state = CANDIDATE =>
       node.votesFor = node.name /\ node.votesGranted >= 1
  /\ ( \/ last.kind \in {"promote", "election expiry"}
       \/ last.kind = "heartbeat expiry" /\ last.pre.state # LEADER )
     => /\ node.state = CANDIDATE /\ node.term = last.pre.term + 1
        /\ node.votesFor = node.name /\ node.votesGranted = 1

\* A candidate promoted at term 1 is still CANDIDATE at term 1 after a
\* vote request of another candidate and holds two granted votes.
CandidateSeenLater ==
  /\ node.state = CANDIDATE /\ node.term = 1 /\ node.votesGranted = 2
  /\ last.kind = "read" /\ last.data.type = "vote" /\ last.data.term = 1

\* C6: a packet from a LEADER of the node's own term leaves the node
\* FOLLOWER in the same term, whatever its role and the packet's type.
LeaderPacketDemotes ==
  ( /\ last.kind = "read" /\ last.ret = "true" /\ last.data.object
    /\ last.data.state = LEADER /\ last.data.term = last.pre.term )
  => node.state = FOLLOWER /\ node.term = last.pre.term

\* A LEADER read a voted packet sent by a LEADER of its own term.
LeaderReadLeaderPacket ==
  /\ last.kind = "read" /\ last.ret = "true"
  /\ last.data.state = LEADER /\ last.data.term = last.pre.term
  /\ last.pre.state = LEADER /\ last.data.type = "voted"

\* C7 as stated: a LEADER that reads a packet of a higher term ends as
\* FOLLOWER of that term with voted-for none, whatever the packet's type.
HigherTermClearsVote ==
  ( /\ last.kind = "read" /\ last.ret = "true" /\ last.data.object
    /\ last.pre.state = LEADER /\ last.data.term > last.pre.term )
  => /\ node.state = FOLLOWER /\ node.term = last.data.term
     /\ node.votesFor = Null

\* C7 amended: a LEADER that reads a packet of a higher term ends as
\* FOLLOWER of that term; its vote record is cleared when the term
\* changes, and at the end voted-for is none unless the packet is a vote
\* request, which is then granted: voted-for is the requester.
HigherTermDemotes ==
  ( /\ last.kind = "read" /\ last.ret = "true" /\ last.data.object
    /\ last.pre.state = LEADER /\ last.data.term > last.pre.term )
  => /\ node.state = FOLLOWER /\ node.term = last.data.term
     /\ \E i \in 1..Len(last.tr) :
          /\ last.tr[i].k = "term change" /\ last.tr[i].v = last.data.term
          /\ last.tr[i].vf = Null
     /\ node.votesFor =
          IF last.data.type = "vote" THEN last.data.name ELSE Null

\* A LEADER of term 1 read a vote request of term 2.
LeaderReadHigherTermVote ==
  /\ last.kind = "read" /\ last.ret = "true"
  /\ last.pre.state = LEADER /\ last.pre.term = 1
  /\ last.data.term = 2 /\ last.data.type = "vote"

AtMostOneTimerPending ==
  ~ ({"heartbeat", "election"} \subseteq node.timers)

\* C10: right after construction the node is FOLLOWER at term 0 with no
\* leader and no vote, and its heartbeat timer is armed.
StartsWithHeartbeatArmed ==
  last.kind = "new" =>
    /\ node.state = FOLLOWER /\ node.term = 0 /\ node.leader = Null
    /\ node.votesFor = Null /\ node.votesGranted = 0
    /\ "heartbeat" \in node.timers

\* C11: in a single-node cluster the expiry of a FOLLOWER's heartbeat timer
\* emits heartbeat timeout, makes the node CANDIDATE one term higher with
\* its own vote, and ends with the node LEADER and leader its own name,
\* without any inbound packet.
LoneNodeElectsItself ==
  ( /\ last.kind = "heartbeat expiry" /\ last.pre.state = FOLLOWER
    /\ node.nodesLength = 1 )
  => /\ last.tr[1].k = "heartbeat timeout"
     /\ \E i \in 1..Len(last.tr) :
          /\ last.tr[i].k = "state change" /\ last.tr[i].v = CANDIDATE
     /\ node.term = last.pre.term + 1
     /\ node.state = LEADER /\ node.leader = node.name

\* C12: the expiry of a LEADER's heartbeat timer broadcasts a heartbeat
\* packet and leaves a heartbeat timer pending again.
LeaderHeartbeatRearmed ==
  ( last.kind = "heartbeat expiry" /\ last.pre.state = LEADER )
  => /\ \E i \in 1..Len(last.tr) :
          last.tr[i].k = "broadcast" /\ last.tr[i].s = "heartbeat"
     /\ node.state = LEADER
     /\ "heartbeat" \in node.timers

\* C13: a CANDIDATE that has counted a granted vote becomes LEADER, with
\* leader its own name, exactly when its granted count is at least
\* floor(N/2)+1 for a cluster of N; with fewer it stays CANDIDATE.
CountedGrantedVote ==
  /\ last.kind = "read" /\ last.ret = "true" /\ last.data.object
  /\ last.data.type = "voted" /\ last.data.granted
  /\ last.pre.state = CANDIDATE
  /\ last.data.term = last.pre.term /\ last.data.state # LEADER

MajorityMakesLeader ==
  CountedGrantedVote
  => IF node.votesGranted >= (node.nodesLength \div 2) + 1
     THEN node.state = LEADER /\ node.leader = node.name
     ELSE node.state = CANDIDATE

\* C14: after end() has returned true, every later read(packet),
\* write(packet) and end() returns false, raises no error, emits nothing
\* and changes no state.
StoppedCallsReturnFalse ==
  ( last.pre.ended /\ last.kind \in {"read", "write", "end"} )
  => /\ last.ret = "false"
     /\ last.tr = <<>>
     /\ node = last.pre

\* C15: STOPPED is terminal: end() leaves no timer pending and marks the
\* node STOPPED, and no later expiry or public call changes the node's
\* role, term, leader or vote record.
StoppedIsTerminal ==
  /\ node.ended => node.timers = {} /\ node.state = STOPPED
  /\ last.pre.ended
     => /\ node.state = last.pre.state
        /\ node.term = last.pre.term
        /\ node.leader = last.pre.leader
        /\ node.votesFor = last.pre.votesFor
        /\ node.votesGranted = last.pre.votesGranted

\* C16: a vote request of a higher term is always granted: the term is
\* advanced first, which clears voted-for, then the grant is evaluated, so
\* that the node ends as FOLLOWER of the request's term with voted-for the
\* requester, and the vote event was emitted with true.
VoteRequestOfHigherTerm ==
  /\ last.kind = "read" /\ last.ret = "true" /\ last.data.object
  /\ last.data.type = "vote" /\ last.data.term > last.pre.term

HigherTermVoteGranted ==
  VoteRequestOfHigherTerm
  => /\ node.term = last.data.term
     /\ node.state = FOLLOWER
     /\ node.votesFor = last.data.name
     /\ \A i \in 1..Len(last.tr) : last.tr[i].k = "vote" => last.tr[i].v = 1
     /\ \E i, j, k \in 1..Len(last.tr) :
          /\ i < j /\ j < k
          /\ last.tr[i].k = "term change" /\ last.tr[i].v = last.data.term
          /\ last.tr[i].vf = Null
          /\ last.tr[j].k = "vote" /\ last.tr[j].s = last.data.name
          /\ last.tr[j].vf = last.data.name
          /\ last.tr[k].k = "write" /\ last.tr[k].v = 1

CandidateGrantedHigherTermVote ==
  /\ VoteRequestOfHigherTerm
  /\ last.pre.state = CANDIDATE /\ last.pre.votesFor = last.pre.name
  /\ node.votesFor = last.data.name /\ node.state = FOLLOWER

\* C17: change(delta) writes and emits a change event only for the fields
\* of delta whose value differs from the current one, in the order term,
\* leader, state whatever the order of the keys; the other fields are left
\* alone and emit nothing.  In promote() the vote reset of the term change
\* comes before the timers are cleared and the heartbeat armed again.
IsChangeEvent(e) == e.k \in {"term change", "leader change", "state change"}

ChangeEvents(tr) ==
  LET evs == SelectSeq(tr, IsChangeEvent)
  IN  [i \in 1..Len(evs) |-> evs[i].k]

Promoted ==
  \/ last.kind \in {"promote", "election expiry"}
  \/ last.kind = "heartbeat expiry" /\ last.pre.state # LEADER

\* promote(): delta is {state: CANDIDATE, term: term + 1, leader: ''}.
PromoteChangesInOrder ==
  Promoted
  => /\ ChangeEvents(last.tr) =
          <<"term change">>
          \o (IF last.pre.leader # "" THEN <<"leader change">> ELSE <<>>)
          \o (IF last.pre.state # CANDIDATE THEN <<"state change">> ELSE <<>>)
     /\ node.term = last.pre.term + 1
     /\ node.leader = "" /\ node.state = CANDIDATE
     /\ \A i, j \in 1..Len(last.tr) :
          ( last.tr[i].k = "term change" /\ last.tr[j].k \in {"clear", "set"} )
          => i < j
     /\ ~last.pre.ended
        => \E i \in 1..Len(last.tr) :
             /\ last.tr[i].k = "term change"
             /\ last.tr[i].vf = Null /\ last.tr[i].vg = 0

\* Term reconciliation: delta is {state: FOLLOWER, term: data.term}.
ReconcileChangesInOrder ==
  ( /\ last.kind = "read" /\ last.ret = "true" /\ last.data.object
    /\ last.data.term > last.pre.term )
  => /\ ChangeEvents(last.tr) =
          <<"term change">>
          \o (IF last.pre.state # FOLLOWER THEN <<"state change">> ELSE <<>>)
     /\ node.leader = last.pre.leader

ChangesInOrder == PromoteChangesInOrder /\ ReconcileChangesInOrder

LeaderPromotedAgain ==
  /\ last.kind = "promote"
  /\ last.pre.state = LEADER /\ last.pre.leader = last.pre.name
  /\ ChangeEvents(last.tr) = <<"term change", "leader change", "state change">>
  /\ \E j \in 1..Len(last.tr) : last.tr[j].k = "clear"

\* C18: the node never sets a timer under a name that has a pending timer:
\* heartbeat() adjusts a pending heartbeat timer, and promote() arms the
\* election timer only when none is pending.
NoTimerSetTwice ==
  \A i \in 1..Len(last.tr) : last.tr[i].k # "set again"

\* C19: a voted packet is tallied only by a CANDIDATE: a FOLLOWER or LEADER
\* changes neither granted nor its role, and a CANDIDATE increments granted
\* by exactly 1 if the packet says granted and is of the node's term, and
\* leaves granted unchanged otherwise.
VotedPacketRead ==
  /\ last.kind = "read" /\ last.ret = "true" /\ last.data.object
  /\ last.data.type = "voted"

VotedTalliedByCandidateOnly ==
  VotedPacketRead
  => IF last.pre.state # CANDIDATE
     THEN /\ node.votesGranted = last.pre.votesGranted
          /\ node.state = last.pre.state
     ELSE node.votesGranted =
            last.pre.votesGranted
            + (IF last.data.granted /\ last.data.term = last.pre.term
               THEN 1 ELSE 0)

\* C19, amended: the tally comes after the steps common to all packets.  A
\* stale packet changes nothing; a higher term makes the node FOLLOWER with
\* granted 0 and a LEADER's packet makes it FOLLOWER; a node that is then
\* not CANDIDATE ignores the packet, and one that is CANDIDATE adds 1 to
\* granted exactly if the packet says granted.
RoleAfterCommonSteps ==
  IF last.data.term > last.pre.term THEN FOLLOWER
  ELSE IF last.data.state = LEADER /\ last.pre.state # FOLLOWER THEN FOLLOWER
  ELSE last.pre.state

GrantedAfterCommonSteps ==
  IF last.data.term > last.pre.term THEN 0 ELSE last.pre.votesGranted

VotedTalliedAfterCommonSteps ==
  VotedPacketRead
  => IF last.data.term < last.pre.term
     THEN node = last.pre
     ELSE IF RoleAfterCommonSteps # CANDIDATE
     THEN /\ node.votesGranted = GrantedAfterCommonSteps
          /\ node.state = RoleAfterCommonSteps
     ELSE /\ node.votesGranted =
               last.pre.votesGranted + (IF last.data.granted THEN 1 ELSE 0)
          /\ node.state \in {CANDIDATE, LEADER}

CandidateTalliedVote ==
  /\ VotedPacketRead
  /\ last.pre.state = CANDIDATE /\ last.data.granted
  /\ node.votesGranted = last.pre.votesGranted + 1

\* C20: the leader field and the role agree about self-leadership: a
\* node's leader is its own name exactly when its state is LEADER.
LeaderFieldMatchesRole ==
  (node.leader = node.name) <=> (node.state = LEADER)


====
